---- MODULE Spec2Model ----
(***************************************************************************)
(* Commission & Incentive Calculator (src/app.py).                         *)
(*                                                                         *)
(* The page is a script that is re-run after every interaction.  What      *)
(* survives a run is the session state (sales_rows, sales_bonus_tiers and  *)
(* the selected currency); what a run shows is recomputed from it.  The    *)
(* Salesman page is modelled as a state machine over the session state and *)
(* the figures the last run displayed.  The Project Manager and Delivery   *)
(* Team pages hold no session state of their own: a run is a function of   *)
(* the widget values, which are drawn in the initial state.                *)
(*                                                                         *)
(* Numbers.  The program computes in binary floating point; the model      *)
(* computes the same expressions exactly, in fixed units:                  *)
(*   contract values   multiples of ValueUnit (the step of the inputs)     *)
(*   rates             parts per million of the contract value             *)
(*   commission, bonus ValueUnit / PPM of a currency unit                  *)
(*   "Rate %"          thousandths of a percent (round(.,3) of a percent)  *)
(*   "Bonus %" cells   1/PctDen of a percent                               *)
(*   KPI scores        1/ScoreDen of a point, KPI_total 1/(100*ScoreDen)   *)
(*   bonus months      hundredths of a month (round(.,2))                  *)
(* round() to n decimals gives the nearest value; when the exact value     *)
(* lies half way, the float that stands for it lies on either side, so     *)
(* the side is an input (TieSides) and not one outcome.                    *)
(***************************************************************************)
EXTENDS Integers, Sequences, FiniteSets, TLC

VARIABLES
    currency,            \* st.selectbox "Currency" of the Salesman page
    sales_rows,          \* st.session_state.sales_rows
    sales_bonus_tiers,   \* st.session_state.sales_bonus_tiers
    commission_table,    \* what the "Commission Table" section showed
    final_bonus,         \* what the "FINAL BONUS" section showed
    clicked,             \* history: the widget whose use started the last script run
    role,                \* st.selectbox "Role"
    pm_in,               \* widget values of the Project Manager page
    pm_out,              \* what a run of the Project Manager page showed
    dt_in,               \* widget values of the Delivery Team page
    dt_out,              \* what a run of the Delivery Team page showed
    curve_in,            \* two KPI scores given to the bonus-month rule
    curve_out            \* the months both pages' copies of the rule give

sales_vars == <<currency, sales_rows, sales_bonus_tiers, commission_table, final_bonus, clicked>>
incentive_vars == <<pm_in, pm_out, dt_in, dt_out>>
curve_vars == <<curve_in, curve_out>>
vars == <<sales_vars, role, incentive_vars, curve_vars>>

----------------------------------------------------------------------------
(* Bounds of the model *)

MaxRows == 2
MaxPairs == 2

----------------------------------------------------------------------------
(* Units and arithmetic helpers *)

ValueUnit == 10000
PPM == 1000 * 1000
PctDen == 2 * 5
ScoreDen == 2 * 3

Max(a, b) == IF a >= b THEN a ELSE b
Min(a, b) == IF a <= b THEN a ELSE b

\* the decimal fraction n/d as a rate in parts per million
Frac(n, d) == (n * PPM) \div d
\* an amount of currency units as a contract value
Money(x) == x \div ValueUnit

TieSides == {"down", "up"}

\* round(): num/den to the nearest integer; an exact half goes to `tie`
round(num, den, tie) ==
    LET q == num \div den
        r == num % den
    IN  IF 2 * r < den THEN q
        ELSE IF 2 * r > den THEN q + 1
        ELSE IF tie = "up" THEN q + 1 ELSE q

RECURSIVE SumSeq(_)
SumSeq(s) == IF s = << >> THEN 0 ELSE Head(s) + SumSeq(Tail(s))

\* the sequences over S of length at most n
RECURSIVE SeqsUpTo(_, _)
SeqsUpTo(S, n) ==
    IF n = 0 THEN {<< >>}
    ELSE LET shorter == SeqsUpTo(S, n - 1)
         IN  shorter \cup {Append(s, x) : s \in shorter, x \in S}

Column(df, name) == [i \in 1..Len(df) |-> df[i][name]]

clamp_0_1(x, one) == Max(0, Min(one, x))

----------------------------------------------------------------------------
(* Salesman: session state *)

Currencies == <<"USD", "RM">>
CurrencySet == {Currencies[i] : i \in 1..Len(Currencies)}

\* a cell of the tier editor: a number, or something that is not one
\* (a cleared cell, text)
Num(n) == [kind |-> "number", value |-> n]
Blank == [kind |-> "blank"]
\* the percent n/d as a "Bonus %" cell value
Pct(n, d) == (n * PctDen) \div d

ThresholdHeader == <<"Min Total Contract Value (inclusive)">>
BonusHeader == <<"Bonus % on Total">>

DefaultTiers ==
    [columns |-> <<ThresholdHeader, BonusHeader>>,
     rows |-> << <<Num(Money(0)), Num(Pct(0, 10))>>,
                 <<Num(Money(1000000)), Num(Pct(2, 10))>>,
                 <<Num(Money(5000000)), Num(Pct(5, 10))>>,
                 <<Num(Money(10000000)), Num(Pct(8, 10))>>,
                 <<Num(Money(15000000)), Num(Pct(10, 10))>> >>]

----------------------------------------------------------------------------
(* Salesman: per-category rate rules and the stored deal *)

IRURate_NoFloor(pairs) ==
    Frac(3, 100) + (pairs - 1) * Frac(1, 1000)

IRURate(pairs) ==
    LET base == Frac(3, 100)
        new_pairs == Max(pairs - 1, 0)
    IN  base + new_pairs * Frac(1, 1000)

LeaseRate(pairs) ==
    LET base == Frac(2, 100)
        new_pairs == Max(pairs - 1, 0)
    IN  base + new_pairs * Frac(1, 1000)

BuildRate_Continuous(v, prepay) ==
    LET lo == Money(5000000)
        hi == Money(15000000)
        base == IF v < lo THEN Frac(15, 1000)
                ELSE IF v <= hi
                     THEN Frac(15, 1000)
                          + ((Frac(3, 100) - Frac(15, 1000)) * clamp_0_1(v - lo, hi - lo))
                            \div (hi - lo)
                     ELSE Frac(3, 100)
    IN  IF prepay THEN base + Frac(2, 1000) ELSE base

BuildRate_PrepayIgnored(v, prepay) ==
    LET lo == Money(5000000)
        span == Money(10000000)
        t == v - lo
    IN  IF v < lo THEN Frac(12, 1000)
        ELSE IF v <= Money(15000000)
             THEN Frac(15, 1000)
                  + ((Frac(3, 100) - Frac(15, 1000)) * clamp_0_1(t, span)) \div span
             ELSE Frac(3, 100)

BuildRate(v, prepay) ==
    LET lo == Money(5000000)
        span == Money(10000000)
        \* t = (v - 5_000_000) / 10_000_000, held as t * span
        t == v - lo
        base == IF v < lo THEN Frac(12, 1000)
                ELSE IF v <= Money(15000000)
                     THEN Frac(15, 1000)
                          + ((Frac(3, 100) - Frac(15, 1000)) * clamp_0_1(t, span))
                            \div span
                     ELSE Frac(3, 100)
    IN  IF prepay THEN base + Frac(2, 1000) ELSE base

DCTypes == <<"Existing 3%", "New 4%", "Hyperscaler 5%">>
DCTypeSet == {DCTypes[i] : i \in 1..Len(DCTypes)}

\* `"3" in d_type`: the type labels are told apart by the digit they hold
Contains(d_type, digit) ==
    \/ digit = "3" /\ d_type = "Existing 3%"
    \/ digit = "4" /\ d_type = "New 4%"
    \/ digit = "5" /\ d_type = "Hyperscaler 5%"

DCRate_Shifted(d_type) ==
    IF Contains(d_type, "3") THEN Frac(3, 100)
    ELSE IF Contains(d_type, "5") THEN Frac(4, 100)
    ELSE Frac(5, 100)

DCRate(d_type) ==
    IF Contains(d_type, "3") THEN Frac(3, 100)
    ELSE IF Contains(d_type, "4") THEN Frac(4, 100)
    ELSE Frac(5, 100)

\* round(rate * 100, 3), in thousandths of a percent
RatePct(rate, tie) == round(rate, PPM \div (100 * 1000), tie)

Deal_BaseCommission(category, value, pairs, rate, tie, cur) ==
    [Category |-> category,
     ContractValue |-> value,
     Pairs |-> pairs,
     RatePct |-> RatePct(rate, tie),
     Commission |-> value * Min(rate, Frac(3, 100)),
     Currency |-> cur]

\* the dict appended to sales_rows; Date and Customer are text the
\* computation never reads and are left out.  Pairs is <<n>> or << >> ("").
Deal(category, value, pairs, rate, tie, cur) ==
    [Category |-> category,
     ContractValue |-> value,
     Pairs |-> pairs,
     RatePct |-> RatePct(rate, tie),
     Commission |-> value * rate,
     Currency |-> cur]

----------------------------------------------------------------------------
(* Salesman: bonus tier table *)

\* A header is a sequence of pieces, " " standing for white space.
RECURSIVE lstrip(_)
lstrip(h) == IF h # << >> /\ Head(h) = " " THEN lstrip(Tail(h)) ELSE h

RECURSIVE rstrip(_)
rstrip(h) ==
    IF h # << >> /\ h[Len(h)] = " " THEN rstrip(SubSeq(h, 1, Len(h) - 1)) ELSE h

strip_Leading(h) == lstrip(h)

strip(h) == lstrip(rstrip(h))

MinCol == <<"Min Total Contract Value">>
BonusCol == <<"Bonus %">>

rename_map(c) ==
    IF c \in {<<"Min Total Contract Value">>,
              <<"Min Total Contract Value (inclusive)">>,
              <<"Min Total Contract Value (Inclusive)">>} THEN MinCol
    ELSE IF c \in {<<"Bonus %">>, <<"Bonus % on Total">>, <<"Bonus % On Total">>}
         THEN BonusCol
    ELSE c

\* pd.to_numeric(errors="coerce").fillna(0.0)
to_numeric_fillna(cell) == IF cell.kind = "number" THEN cell ELSE Num(0)

normalize_tier_df(df) ==
    LET cols == [i \in 1..Len(df.columns) |-> rename_map(strip(df.columns[i]))]
    IN  [columns |-> cols,
         rows |-> [k \in 1..Len(df.rows) |->
                    [i \in 1..Len(cols) |->
                        IF cols[i] \in {MinCol, BonusCol}
                        THEN to_numeric_fillna(df.rows[k][i])
                        ELSE df.rows[k][i]]]]

ColumnSet(df) == {df.columns[i] : i \in 1..Len(df.columns)}

\* r[name] for a row r of df
Cell(df, r, name) ==
    r[CHOOSE i \in 1..Len(df.columns) : df.columns[i] = name].value

\* DataFrame.sort_values(name): the default sort is not stable, so rows with
\* equal keys may come out in any order; every sorted order is a result.
RECURSIVE SortedOrders(_, _, _)
SortedOrders(df, name, idx) ==
    IF idx = {} THEN {<< >>}
    ELSE LET least == {i \in idx :
                        \A j \in idx : Cell(df, df.rows[i], name) <= Cell(df, df.rows[j], name)}
         IN  UNION {{<<df.rows[i]>> \o s : s \in SortedOrders(df, name, idx \ {i})}
                    : i \in least}

sort_values(df, name) == SortedOrders(df, name, 1..Len(df.rows))

\* for _, r in tiers.iterrows(): every row at or under the total overwrites
\* bonus_rate, so the last such row of the order decides
RECURSIVE BonusLoop(_, _, _, _)
BonusLoop(df, rows, total_value, bonus_rate) ==
    IF rows = << >> THEN bonus_rate
    ELSE LET r == Head(rows)
         IN  BonusLoop(df, Tail(rows), total_value,
                       IF total_value >= Cell(df, r, MinCol)
                       THEN (Cell(df, r, BonusCol) * PPM) \div (PctDen * 100)
                       ELSE bonus_rate)

TierLookup_Unsorted(tiers_norm, total_value) ==
    {BonusLoop(tiers_norm, tiers_norm.rows, total_value, 0)}

\* the bonus rates the lookup can produce (one per sorted order)
TierLookup(tiers_norm, total_value) ==
    {BonusLoop(tiers_norm, tiers, total_value, 0) :
        tiers \in sort_values(tiers_norm, MinCol)}

----------------------------------------------------------------------------
(* Salesman: what a run of the page shows *)

CurrencyView_All(rows, cur) == rows

\* df_all[df_all["Currency"] == currency]
CurrencyView(rows, cur) ==
    LET same(r) == r.Currency = cur
    IN  SelectSeq(rows, same)

CommissionTable(rows, cur) ==
    LET df_view == CurrencyView(rows, cur)
    IN  IF rows = << >> THEN [shown |-> "no data"]
        ELSE IF df_view = << >> THEN [shown |-> "no data for currency"]
        ELSE [shown |-> "table",
              total_value |-> SumSeq(Column(df_view, "ContractValue")),
              total_comm |-> SumSeq(Column(df_view, "Commission"))]

required_cols == {MinCol, BonusCol}

FinalBonus_CommissionOnly(total_comm, bonus) == total_comm

\* total_incentive = total_comm + bonus
TotalIncentive(total_comm, bonus) == total_comm + bonus

\* the records the FINAL BONUS section can show
FinalBonus(rows, cur, tiers_df) ==
    LET tiers_norm == normalize_tier_df(tiers_df)
        df == CurrencyView(rows, cur)
        total_value == SumSeq(Column(df, "ContractValue"))
        total_comm == SumSeq(Column(df, "Commission"))
    IN  IF ~(required_cols \subseteq ColumnSet(tiers_norm))
        THEN {[shown |-> "stopped"]}
        ELSE IF df = << >> THEN {[shown |-> "info"]}
        ELSE {[shown |-> "ok",
               total_value |-> total_value,
               total_comm |-> total_comm,
               bonus_rate |-> bonus_rate,
               bonus |-> total_value * bonus_rate,
               total_incentive |-> TotalIncentive(total_comm, total_value * bonus_rate)]
              : bonus_rate \in TierLookup(tiers_norm, total_value)}

\* st.rerun(): the script runs again on the new session state
Rerun ==
    /\ commission_table' = CommissionTable(sales_rows', currency')
    /\ final_bonus' \in FinalBonus(sales_rows', currency', sales_bonus_tiers')
    /\ UNCHANGED <<role, incentive_vars, curve_vars>>

----------------------------------------------------------------------------
(* Salesman: the handlers *)

\* the widget that started a script run, by its key or label
NoClick == [widget |-> "none"]
Click(widget) == [widget |-> widget]

SelectCurrency(c) ==
    /\ currency' = c
    /\ clicked' = Click("sm_currency")
    /\ UNCHANGED <<sales_rows, sales_bonus_tiers>>
    /\ Rerun

AppendDeal(deal) ==
    /\ Len(sales_rows) < MaxRows
    /\ sales_rows' = Append(sales_rows, deal)
    /\ clicked' = Click("Add " \o deal.Category)
    /\ UNCHANGED <<currency, sales_bonus_tiers>>
    /\ Rerun

AddIRU(iru_value, iru_pairs, tie) ==
    AppendDeal(Deal("IRU", iru_value, <<iru_pairs>>, IRURate(iru_pairs), tie, currency))

AddLease(l_value, l_pairs, tie) ==
    AppendDeal(Deal("Fiber Lease", l_value, <<l_pairs>>, LeaseRate(l_pairs), tie, currency))

AddBuild(b_value, prepay, tie) ==
    AppendDeal(Deal("Build", b_value, << >>, BuildRate(b_value, prepay), tie, currency))

AddDC(d_value, d_type, tie) ==
    AppendDeal(Deal("DC Grid", d_value, << >>, DCRate(d_type), tie, currency))

\* the three buttons are drawn only under a non-empty table
TableShown == commission_table.shown = "table"

KeepUnticked_CurrentOnly(rows, cur, ticked_nos) ==
    LET cur_rows == CurrencyView(rows, cur)
        keep(i) == IF i \in ticked_nos THEN << >> ELSE <<cur_rows[i]>>
        RECURSIVE keep_from(_)
        keep_from(i) == IF i > Len(cur_rows) THEN << >> ELSE keep(i) \o keep_from(i + 1)
    IN  keep_from(1)

KeepUnticked_ZeroBased(rows, cur, ticked_nos) ==
    LET cur_rows == CurrencyView(rows, cur)
        other(r) == r.Currency # cur
        keep(i) == IF (i - 1) \in ticked_nos THEN << >> ELSE <<cur_rows[i]>>
        RECURSIVE keep_from(_)
        keep_from(i) == IF i > Len(cur_rows) THEN << >> ELSE keep(i) \o keep_from(i + 1)
    IN  SelectSeq(rows, other) \o keep_from(1)

KeepUnticked(rows, cur, ticked_nos) ==
    LET cur_rows == CurrencyView(rows, cur)
        other(r) == r.Currency # cur
        other_rows == SelectSeq(rows, other)
        keep_idx == {i \in 1..Len(cur_rows) : i \notin ticked_nos}
        RECURSIVE keep_from(_)
        keep_from(i) ==
            IF i > Len(cur_rows) THEN << >>
            ELSE (IF i \in keep_idx THEN <<cur_rows[i]>> ELSE << >>) \o keep_from(i + 1)
    IN  other_rows \o keep_from(1)

DeleteTicked(ticked_nos) ==
    /\ TableShown
    /\ ticked_nos \subseteq 1..Len(CurrencyView(sales_rows, currency))
    /\ sales_rows' = IF ticked_nos = {}
                     THEN sales_rows    \* st.warning("No rows ticked.")
                     ELSE KeepUnticked(sales_rows, currency, ticked_nos)
    /\ clicked' = [widget |-> "btn_delete_ticked", ticked_nos |-> ticked_nos]
    /\ UNCHANGED <<currency, sales_bonus_tiers>>
    /\ Rerun

ClearCurrency ==
    /\ TableShown
    /\ sales_rows' = LET other(r) == r.Currency # currency
                     IN  SelectSeq(sales_rows, other)
    /\ clicked' = Click("btn_clear_currency")
    /\ UNCHANGED <<currency, sales_bonus_tiers>>
    /\ Rerun

ClearAllCurrencies ==
    /\ TableShown
    /\ sales_rows' = << >>
    /\ clicked' = Click("btn_clear_all_currencies")
    /\ UNCHANGED <<currency, sales_bonus_tiers>>
    /\ Rerun

\* st.data_editor on the tier table: the edited table is stored back
EditBonusTiers(edited) ==
    /\ sales_bonus_tiers' = edited
    /\ clicked' = Click("bonus_tiers_editor")
    /\ UNCHANGED <<currency, sales_rows>>
    /\ Rerun

----------------------------------------------------------------------------------------------------------------------------------------
(* Project Manager and Delivery Team: scores and the bonus-month rule *)

\* n points as a score
Point(n) == n * ScoreDen

clamp_0_100(x) == Max(0, Min(Point(100), x))

Tick(checked) == IF checked THEN Point(100) ELSE Point(0)

\* kpi_score = KPI_total / 100.0 keeps the integer and changes its unit:
\* KpiOne stands for kpi_score = 1.0 (KPI_total = 100 points)
KpiOne == Point(100) * 100

\* lines 556-562, in hundredths of a month
PM_bonus_months(kpi_score, tie) ==
    LET half == KpiOne \div 2
        \* bonus_months * half, so that the division by 0.5 stays exact
        bonus_months == IF kpi_score < half THEN 100 * half
                        ELSE 100 * half + 500 * (kpi_score - half)
    IN  round(Min(bonus_months, 600 * half), half, tie)

DT_bonus_months_Slope6(kpi_score, tie) ==
    LET half == KpiOne \div 2
        bonus_months == IF kpi_score < half THEN 100 * half
                        ELSE 100 * half + 600 * (kpi_score - half)
    IN  round(Min(bonus_months, 600 * half), half, tie)

\* lines 688-694, in hundredths of a month
DT_bonus_months(kpi_score, tie) ==
    LET half == KpiOne \div 2
        bonus_months == IF kpi_score < half THEN 100 * half
                        ELSE 100 * half + 500 * (kpi_score - half)
    IN  round(Min(bonus_months, 600 * half), half, tie)

----------------------------------------------------------------------------
(* Project Manager page *)

PM_Tier(from, to, rate) == [From |-> from, To |-> to, Rate |-> rate]

tiers_default ==
    <<PM_Tier(1, 3, 500), PM_Tier(4, 6, 700), PM_Tier(7, 9999, 900)>>

\* tiers.sort_values("From #"): any order sorted by From
RECURSIVE SortedByFrom(_, _)
SortedByFrom(tiers, idx) ==
    IF idx = {} THEN {<< >>}
    ELSE LET least == {i \in idx : \A j \in idx : tiers[i].From <= tiers[j].From}
         IN  UNION {{<<tiers[i]>> \o s : s \in SortedByFrom(tiers, idx \ {i})}
                    : i \in least}

TierCount_Exclusive(ontime_projects, t) ==
    Max(Min(ontime_projects, t.To) - t.From, 0)

TierCount_NoCap(ontime_projects, t) ==
    Max(ontime_projects - t.From + 1, 0)

\* tier_count of one tier that is not skipped
TierCount(ontime_projects, t) ==
    Max(Min(ontime_projects, t.To) - t.From + 1, 0)

\* the loop of lines 441-462: the breakdown rows, in order
RECURSIVE PartALoop(_, _)
PartALoop(ontime_projects, tiers_sorted) ==
    IF tiers_sorted = << >> THEN << >>
    ELSE LET t == Head(tiers_sorted)
             rest == PartALoop(ontime_projects, Tail(tiers_sorted))
         IN  IF ontime_projects < t.From THEN rest
             ELSE <<[From |-> t.From,
                     tier_count |-> TierCount(ontime_projects, t),
                     tier_pay |-> TierCount(ontime_projects, t) * t.Rate]>> \o rest

PM_Weights_Heavy == <<45, 20, 15, 15, 10>>

\* the weights of lines 544-550, in hundredths
PM_Weights == <<40, 20, 15, 15, 10>>

PM_Scores(in) ==
    LET milestone_score == clamp_0_100(Point(in.milestone_on_schedule_pct))
        timeline_score == clamp_0_100(Point(100) - 5 * Point(in.delay_days))
        quality_score ==
            clamp_0_100(Point(100)
                        - (IF in.otdr_fail THEN Point(50) ELSE 0)
                        - (IF ~in.no_major_defect_60 THEN Point(50) ELSE 0))
    IN  <<(milestone_score + timeline_score) \div 2,
          quality_score,
          (Tick(in.activation_no_dispute) + Tick(in.no_sla_penalty_60)) \div 2,
          (Tick(in.no_authority_penalty) + Tick(in.no_safety_incident)) \div 2,
          (Tick(in.weekly_reporting) + Tick(in.accurate_tracking)) \div 2>>

Weighted(scores, weights) ==
    SumSeq([i \in 1..Len(scores) |-> scores[i] * weights[i]])

\* one run of the page
ProjectManagerRun(in, tiers_sorted, tie) ==
    LET breakdown_rows == PartALoop(in.ontime_projects, tiers_sorted)
        KPI_total == Weighted(PM_Scores(in), PM_Weights)
        kpi_score == KPI_total
    IN  [run |-> TRUE,
         breakdown_rows |-> breakdown_rows,
         part_a_bonus |-> SumSeq(Column(breakdown_rows, "tier_pay")),
         scores |-> PM_Scores(in),
         KPI_total |-> KPI_total,
         kpi_score |-> kpi_score,
         bonus_months |-> PM_bonus_months(kpi_score, tie)]

NotRun == [run |-> FALSE]

\* the widgets' value= defaults; an unticked checkbox is False
PM_Defaults ==
    [ontime_projects |-> 0, tiers |-> tiers_default,
     milestone_on_schedule_pct |-> 90, delay_days |-> 0,
     otdr_fail |-> FALSE, no_major_defect_60 |-> FALSE,
     activation_no_dispute |-> FALSE, no_sla_penalty_60 |-> FALSE,
     no_authority_penalty |-> FALSE, no_safety_incident |-> FALSE,
     weekly_reporting |-> FALSE, accurate_tracking |-> FALSE]

ProjectManager ==
    /\ role = "Project Manager"
    /\ ~pm_out.run
    /\ \E tiers_sorted \in SortedByFrom(pm_in.tiers, 1..Len(pm_in.tiers)), tie \in TieSides :
          pm_out' = ProjectManagerRun(pm_in, tiers_sorted, tie)
    /\ UNCHANGED <<sales_vars, role, pm_in, dt_in, dt_out, curve_vars>>

----------------------------------------------------------------------------
(* Delivery Team page *)

DT_Weights == <<35, 25, 20, 15, 5>>

\* cost_variance_pct is held in halves of a percent (the step of the input)
VarianceDen == 1 + 1

DT_Scores(in) ==
    LET milestone_score == clamp_0_100(Point(in.milestone_on_schedule_pct))
        delay_score == clamp_0_100(Point(100) - 5 * Point(in.delay_days))
        critical_score == Tick(in.no_missed_critical)
        variance_score ==
            IF in.cost_variance_pct <= 0 THEN Point(100)
            ELSE clamp_0_100(Point(100)
                             - (10 * Point(in.cost_variance_pct)) \div VarianceDen)
        quality_score ==
            clamp_0_100(Point(100)
                        - (IF in.otdr_fail THEN Point(40) ELSE 0)
                        - (IF in.rework_due_to_team THEN Point(40) ELSE 0)
                        - (IF ~in.no_major_defect_60 THEN Point(20) ELSE 0))
    IN  <<(milestone_score + delay_score + critical_score) \div 3,
          (variance_score + Tick(in.material_wastage_ok) + Tick(in.vo_approved_only)) \div 3,
          quality_score,
          (Tick(in.no_safety_incident) + Tick(in.no_authority_penalty)) \div 2,
          (Tick(in.weekly_reporting) + Tick(in.accurate_tracking)) \div 2>>

DT_Defaults ==
    [milestone_on_schedule_pct |-> 90, delay_days |-> 0, no_missed_critical |-> FALSE,
     cost_variance_pct |-> 0, material_wastage_ok |-> FALSE, vo_approved_only |-> FALSE,
     otdr_fail |-> FALSE, no_major_defect_60 |-> FALSE, rework_due_to_team |-> FALSE,
     no_safety_incident |-> FALSE, no_authority_penalty |-> FALSE,
     weekly_reporting |-> FALSE, accurate_tracking |-> FALSE]

DeliveryTeamRun(in, tie) ==
    LET KPI_total == Weighted(DT_Scores(in), DT_Weights)
        kpi_score == KPI_total
    IN  [run |-> TRUE,
         scores |-> DT_Scores(in),
         KPI_total |-> KPI_total,
         kpi_score |-> kpi_score,
         bonus_months |-> DT_bonus_months(kpi_score, tie)]

DeliveryTeam ==
    /\ role = "Delivery Team"
    /\ ~dt_out.run
    /\ \E tie \in TieSides : dt_out' = DeliveryTeamRun(dt_in, tie)
    /\ UNCHANGED <<sales_vars, role, pm_in, pm_out, dt_in, curve_vars>>

----------------------------------------------------------------------------
(* The bonus-month rule of both pages applied to the same KPI scores *)

NoCurve == [kpi_a |-> 0, kpi_b |-> 0, tie_a |-> "down", tie_b |-> "down"]

BonusMonthsBoth ==
    /\ ~curve_out.run
    /\ curve_out' = [run |-> TRUE,
                     pm_a |-> PM_bonus_months(curve_in.kpi_a, curve_in.tie_a),
                     pm_b |-> PM_bonus_months(curve_in.kpi_b, curve_in.tie_b),
                     dt_a |-> DT_bonus_months(curve_in.kpi_a, curve_in.tie_a),
                     dt_b |-> DT_bonus_months(curve_in.kpi_b, curve_in.tie_b)]
    /\ UNCHANGED <<sales_vars, role, incentive_vars, curve_in>>

----------------
(* The Salesman page as a state machine *)

\* widget values tried when several deals are stored
SalesPairs == {MaxPairs}
SalesPairValues == {Money(1000000)}
SalesBuildValues == {Money(5000000), Money(15010000)}
SalesDCValues == {Money(1000000)}
SalesDCTypes == {DCTypes[Len(DCTypes)]}

\* the default table with the first threshold edited to 6,000,000: the rows
\* are then out of order
EditedTiers ==
    [DefaultTiers EXCEPT !.rows[1] = <<Num(Money(6000000)), Num(Pct(3, 10))>>]

SalesTierEdits == {DefaultTiers, EditedTiers}

\* the session as the first run of the Salesman page leaves it
InitSalesPage ==
    /\ currency = Currencies[1]
    /\ sales_rows = << >>
    /\ sales_bonus_tiers = DefaultTiers
    /\ clicked = NoClick
    /\ commission_table = CommissionTable(sales_rows, currency)
    /\ final_bonus \in FinalBonus(sales_rows, currency, sales_bonus_tiers)

InitSales ==
    /\ role = "Salesman"
    /\ InitSalesPage
    /\ pm_in = PM_Defaults /\ pm_out = NotRun
    /\ dt_in = DT_Defaults /\ dt_out = NotRun
    /\ curve_in = NoCurve /\ curve_out = NotRun

NextSales ==
    \/ \E c \in CurrencySet : SelectCurrency(c)
    \/ \E v \in SalesPairValues, p \in SalesPairs, tie \in TieSides : AddIRU(v, p, tie)
    \/ \E v \in SalesPairValues, p \in SalesPairs, tie \in TieSides : AddLease(v, p, tie)
    \/ \E v \in SalesBuildValues, prepay \in BOOLEAN, tie \in TieSides :
          AddBuild(v, prepay, tie)
    \/ \E v \in SalesDCValues, ty \in SalesDCTypes, tie \in TieSides : AddDC(v, ty, tie)
    \/ \E T \in SUBSET (1..MaxRows) : DeleteTicked(T)
    \/ ClearCurrency
    \/ ClearAllCurrencies
    \/ \E t \in SalesTierEdits : EditBonusTiers(t)

SpecSales == InitSales /\ [][NextSales]_vars

----------------------------------------------------------------------------
(* The Salesman page from a stored list of deals: selecting a currency,     *)
(* deleting ticked rows and the two clear buttons                           *)

MaxDeals == 3

\* deals as the add handlers store them, two to a currency
StoredDeals ==
    UNION {{Deal("IRU", Money(1000000), <<1>>, IRURate(1), "down", c),
            Deal("Build", Money(5000000), << >>, BuildRate(Money(5000000), FALSE), "down", c)}
           : c \in CurrencySet}

InitDeals ==
    /\ role = "Salesman"
    /\ currency \in CurrencySet
    /\ sales_rows \in SeqsUpTo(StoredDeals, MaxDeals)
    /\ sales_bonus_tiers = DefaultTiers
    /\ clicked = NoClick
    /\ commission_table = CommissionTable(sales_rows, currency)
    /\ final_bonus \in FinalBonus(sales_rows, currency, sales_bonus_tiers)
    /\ pm_in = PM_Defaults /\ pm_out = NotRun
    /\ dt_in = DT_Defaults /\ dt_out = NotRun
    /\ curve_in = NoCurve /\ curve_out = NotRun

NextDeals ==
    \/ \E c \in CurrencySet : SelectCurrency(c)
    \/ \E T \in SUBSET (1..MaxDeals) : DeleteTicked(T)
    \/ ClearCurrency
    \/ ClearAllCurrencies

SpecDeals == InitDeals /\ [][NextDeals]_vars

----------------------------------------------------------------------------
(* The Salesman page with one deal stored at a time: the add handlers over  *)
(* a wider range of widget values                                           *)

PairsInputs == 0..MaxPairs
ValueInputs == {Money(0), Money(1000000), Money(2500000)}
BuildValues == {Money(0), Money(4990000), Money(5000000), Money(5010000),
                Money(10000000), Money(14990000), Money(15000000), Money(15010000)}

NextRates ==
    \/ \E c \in CurrencySet : SelectCurrency(c)
    \/ /\ sales_rows = << >>
       /\ \E v \in ValueInputs, p \in PairsInputs, tie \in TieSides : AddIRU(v, p, tie)
    \/ /\ sales_rows = << >>
       /\ \E v \in ValueInputs, p \in PairsInputs, tie \in TieSides : AddLease(v, p, tie)
    \/ /\ sales_rows = << >>
       /\ \E v \in BuildValues, prepay \in BOOLEAN, tie \in TieSides :
             AddBuild(v, prepay, tie)
    \/ /\ sales_rows = << >>
       /\ \E v \in ValueInputs, ty \in DCTypeSet, tie \in TieSides : AddDC(v, ty, tie)
    \/ ClearAllCurrencies

SpecRates == InitSales /\ [][NextRates]_vars

----------------------------------------------------------------------------
(* The FINAL BONUS section: one run of the page per stored tier table and   *)
(* total                                                                    *)

MaxTierRows == 2

\* tier tables the session can hold: headers as shipped, renamed to an alias
\* (with stray white space), or renamed to something else; a table without
\* the bonus column; cells that are numbers or not
HeaderEdits ==
    {<<ThresholdHeader, BonusHeader>>,
     <<<<" ", "Min Total Contract Value", " ">>, <<"Bonus % On Total", " ">>>>,
     <<<<"Threshold">>, BonusHeader>>,
     <<ThresholdHeader, <<"Rate">>>>,
     <<ThresholdHeader>>}

ThresholdCells == {Num(Money(0)), Num(Money(1000000)), Num(Money(5000000)), Blank}
BonusCells == {Num(Pct(2, 10)), Num(Pct(5, 10)), Blank}

TierRows(columns) ==
    IF Len(columns) = 2
    THEN {<<t, b>> : t \in ThresholdCells, b \in BonusCells}
    ELSE {<<t>> : t \in ThresholdCells}

BonusTierTables ==
    UNION {{[columns |-> h, rows |-> r] : r \in SeqsUpTo(TierRows(h), MaxTierRows)}
           : h \in HeaderEdits}

\* the stored deals: none, or one DC Grid deal of the given value
BonusTotals == {Money(0), Money(500000), Money(1000000), Money(3000000), Money(5000000)}

BonusRows ==
    {<< >>} \cup
    {<<Deal("DC Grid", v, << >>, DCRate("Existing 3%"), "down", Currencies[1])>>
        : v \in BonusTotals}

Pending == [shown |-> "pending"]

InitBonus ==
    /\ role = "Salesman"
    /\ currency = Currencies[1]
    /\ sales_rows \in BonusRows
    /\ sales_bonus_tiers \in BonusTierTables
    /\ commission_table = Pending
    /\ final_bonus = Pending
    /\ clicked = NoClick
    /\ pm_in = PM_Defaults /\ pm_out = NotRun
    /\ dt_in = DT_Defaults /\ dt_out = NotRun
    /\ curve_in = NoCurve /\ curve_out = NotRun

\* the script runs on the session state as it stands
RunPage ==
    /\ final_bonus = Pending
    /\ UNCHANGED <<currency, sales_rows, sales_bonus_tiers, clicked>>
    /\ Rerun

SpecBonus == InitBonus /\ [][RunPage]_vars

----------------------------------------------------------------------------
(* Project Manager page, Part A: one run per on-time count and tier table *)

MaxOntime == 8
MaxTiers == 3

PartATiers ==
    {PM_Tier(1, 3, 500), PM_Tier(4, 6, 700), PM_Tier(7, 9999, 900),
     PM_Tier(1, 6, 300), PM_Tier(4, 3, 500)}

InitPartA ==
    /\ role = "Project Manager"
    /\ InitSalesPage
    /\ \E n \in 0..MaxOntime, t \in SeqsUpTo(PartATiers, MaxTiers) :
          pm_in = [PM_Defaults EXCEPT !.ontime_projects = n, !.tiers = t]
    /\ pm_out = NotRun
    /\ dt_in = DT_Defaults /\ dt_out = NotRun
    /\ curve_in = NoCurve /\ curve_out = NotRun

SpecPartA == InitPartA /\ [][ProjectManager]_vars

----------------------------------------------------------------------------
(* Project Manager and Delivery Team pages, KPI: one run per widget setting *)

PctInputs == {0, 45, 90, 100}
DelayInputs == {0, 1, 10, 20, 21}
DT_PctInputs == {0, 90, 100}
DT_DelayInputs == {0, 1, 21}
VarianceInputs == {-1, 0, 1, 21}

PM_KpiInputs ==
    {[PM_Defaults EXCEPT !.milestone_on_schedule_pct = m, !.delay_days = d,
                         !.otdr_fail = b[1], !.no_major_defect_60 = b[2],
                         !.activation_no_dispute = b[3], !.no_sla_penalty_60 = b[4],
                         !.no_authority_penalty = b[5], !.no_safety_incident = b[6],
                         !.weekly_reporting = b[7], !.accurate_tracking = b[8]]
        : m \in PctInputs, d \in DelayInputs, b \in [1..8 -> BOOLEAN]}

DT_KpiInputs ==
    {[DT_Defaults EXCEPT !.milestone_on_schedule_pct = m, !.delay_days = d,
                         !.cost_variance_pct = cv,
                         !.no_missed_critical = b[1], !.material_wastage_ok = b[2],
                         !.vo_approved_only = b[3], !.otdr_fail = b[4],
                         !.no_major_defect_60 = b[5], !.rework_due_to_team = b[6],
                         !.no_safety_incident = b[7], !.no_authority_penalty = b[8],
                         !.weekly_reporting = b[9], !.accurate_tracking = b[10]]
        : m \in DT_PctInputs, d \in DT_DelayInputs, cv \in VarianceInputs,
          b \in [1..10 -> BOOLEAN]}

InitKPI ==
    /\ InitSalesPage
    /\ \/ role = "Project Manager" /\ pm_in \in PM_KpiInputs /\ dt_in = DT_Defaults
       \/ role = "Delivery Team" /\ dt_in \in DT_KpiInputs /\ pm_in = PM_Defaults
    /\ pm_out = NotRun /\ dt_out = NotRun
    /\ curve_in = NoCurve /\ curve_out = NotRun

NextKPI == ProjectManager \/ DeliveryTeam

SpecKPI == InitKPI /\ [][NextKPI]_vars

----------------------------------------------------------------------------
(* The bonus-month rule over a grid of KPI scores in [0, 1] *)

\* kpi_score in steps of 0.0025 (every other one rounds at an exact half)
\* and in steps of 0.125
KpiFine == {k * (KpiOne \div 400) : k \in 0..400}
KpiCoarse == {k * (KpiOne \div 8) : k \in 0..8}

InitCurve ==
    /\ role = "Project Manager"
    /\ InitSalesPage
    /\ pm_in = PM_Defaults /\ pm_out = NotRun
    /\ dt_in = DT_Defaults /\ dt_out = NotRun
    /\ \E a \in KpiFine, b \in KpiCoarse, ta \in TieSides, tb \in TieSides :
          /\ a = b => ta = tb      \* one float, one rounding
          /\ curve_in = [kpi_a |-> a, kpi_b |-> b, tie_a |-> ta, tie_b |-> tb]
    /\ curve_out = NotRun

SpecCurve == InitCurve /\ [][BonusMonthsBoth]_vars

----------------------------------------------------------------------------
(* Properties of the add handlers (SpecRates) *)

\* a currency amount in the unit commissions are held in
Amount(x) == x * (PPM \div ValueUnit)

\* the deal the step just appended
NewDeal == sales_rows'[Len(sales_rows')]

PairsRateRule(base, pairs) ==
    IF pairs <= 1 THEN base ELSE base + (pairs - 1) * Frac(1, 1000)

(* C7: a pairs-based deal is stored with commission = contract value times
   (base + 0.001 per pair beyond the first), base 0.03 for IRU and 0.02 for
   Fiber Lease; 0 pairs and 1 pair both pay exactly the base rate. *)
C7_PairsCommission ==
    [][\A v \in ValueInputs, p \in PairsInputs, tie \in TieSides :
         /\ AddIRU(v, p, tie) =>
              /\ NewDeal.Category = "IRU"
              /\ NewDeal.ContractValue = v
              /\ NewDeal.Commission = v * PairsRateRule(Frac(3, 100), p)
         /\ AddLease(v, p, tie) =>
              /\ NewDeal.Category = "Fiber Lease"
              /\ NewDeal.ContractValue = v
              /\ NewDeal.Commission = v * PairsRateRule(Frac(2, 100), p)]_vars

\* an IRU deal of 1,000,000 with pairs at the top of the range is stored
\* with its per-pair supplement
C7_Witness ==
    /\ Len(sales_rows) = 1
    /\ sales_rows[1].Category = "IRU"
    /\ sales_rows[1].Pairs = <<MaxPairs>>
    /\ sales_rows[1].ContractValue = Money(1000000)
    /\ sales_rows[1].Commission = Amount(30000 + 1000 * (MaxPairs - 1))

(* C8: a DC Grid deal is stored at exactly 3% for Existing, 4% for New and
   5% for Hyperscaler whatever its contract value, with commission =
   contract value times that rate; Hyperscaler at 1,000,000 pays 50,000. *)
C8_DCGridRate ==
    [][\A v \in ValueInputs, ty \in DCTypeSet, tie \in TieSides :
         AddDC(v, ty, tie) =>
           LET rate == CASE ty = "Existing 3%" -> Frac(3, 100)
                         [] ty = "New 4%" -> Frac(4, 100)
                         [] ty = "Hyperscaler 5%" -> Frac(5, 100)
           IN  /\ NewDeal.Category = "DC Grid"
               /\ NewDeal.Commission = v * rate
               /\ NewDeal.RatePct * (PPM \div (100 * 1000)) = rate
               /\ (ty = "Hyperscaler 5%" /\ v = Money(1000000))
                    => NewDeal.Commission = Amount(50000)]_vars

\* the Hyperscaler deal of 1,000,000 is stored with commission 50,000 at 5%
C8_Witness ==
    /\ Len(sales_rows) = 1
    /\ sales_rows[1].Category = "DC Grid"
    /\ sales_rows[1].ContractValue = Money(1000000)
    /\ sales_rows[1].RatePct = 5000
    /\ sales_rows[1].Commission = Amount(50000)

\* the two band boundaries of the Build to Own rule and the rate at each
BuildLo == Money(5000000)
BuildHi == Money(15000000)
BoundaryRate(b) == IF b = BuildLo THEN Frac(15, 1000) ELSE Frac(3, 100)

\* what one step of ValueUnit moves the interpolated rate by: a rate that
\* moves further than this between a boundary and its neighbour jumps
StepTol == (Frac(3, 100) - Frac(15, 1000)) \div (BuildHi - BuildLo)

Abs(x) == IF x < 0 THEN -x ELSE x

\* the stored commission is within StepTol of the boundary rate
NearBoundaryRate(deal, b, extra) ==
    Abs(deal.Commission - deal.ContractValue * (BoundaryRate(b) + extra))
        <= deal.ContractValue * StepTol

AtBoundaryRate(deal, b, extra) ==
    deal.Commission = deal.ContractValue * (BoundaryRate(b) + extra)

(* C6 as stated: the Build to Own rate is 0.015 at 5,000,000 and 0.03 at
   15,000,000 (plus 0.002 when prepaid) and does not jump on either side of
   either boundary. *)
C6_ContinuousAtBothBoundaries ==
    [][\A v \in BuildValues, prepay \in BOOLEAN, tie \in TieSides :
         AddBuild(v, prepay, tie) =>
           LET extra == IF prepay THEN Frac(2, 1000) ELSE 0
           IN  \A b \in {BuildLo, BuildHi} :
                 /\ v = b => AtBoundaryRate(NewDeal, b, extra)
                 /\ Abs(v - b) <= 1 => NearBoundaryRate(NewDeal, b, extra)]_vars

(* C6 amended: the rate is 0.015 at 5,000,000 and 0.03 at 15,000,000 (plus
   0.002 when prepaid); it does not jump on either side of 15,000,000 nor
   just above 5,000,000, but just below 5,000,000 it is 0.012 (plus 0.002
   when prepaid): the rate steps up by 0.003 at 5,000,000. *)
C6_ContinuousExceptBelowLow ==
    [][\A v \in BuildValues, prepay \in BOOLEAN, tie \in TieSides :
         AddBuild(v, prepay, tie) =>
           LET extra == IF prepay THEN Frac(2, 1000) ELSE 0
           IN  /\ \A b \in {BuildLo, BuildHi} :
                    /\ v = b => AtBoundaryRate(NewDeal, b, extra)
                    /\ (Abs(v - b) <= 1 /\ ~(b = BuildLo /\ v < b))
                         => NearBoundaryRate(NewDeal, b, extra)
               /\ v = BuildLo - 1 =>
                    /\ NewDeal.Commission = v * (Frac(12, 1000) + extra)
                    /\ ~NearBoundaryRate(NewDeal, BuildLo, extra)]_vars

\* a Build deal of exactly 5,000,000, not prepaid, is stored at 1.5%
C6_Witness ==
    /\ Len(sales_rows) = 1
    /\ sales_rows[1].Category = "Build"
    /\ sales_rows[1].ContractValue = BuildLo
    /\ sales_rows[1].RatePct = 1500
    /\ sales_rows[1].Commission = Amount(75000)

----------------------------------------------------------------------------
(* Properties of the Salesman page with several deals stored (SpecSales) *)

\* the sum of f over the set S of its indices
RECURSIVE SetSum(_, _)
SetSum(f, S) ==
    IF S = {} THEN 0
    ELSE LET i == CHOOSE i \in S : TRUE
         IN  f[i] + SetSum(f, S \ {i})

\* the places of the stored deals whose Currency field is c
DealsOf(c) == {i \in 1..Len(sales_rows) : sales_rows[i].Currency = c}

ValueOf(c) == SetSum([i \in 1..Len(sales_rows) |-> sales_rows[i].ContractValue], DealsOf(c))
CommissionOf(c) == SetSum([i \in 1..Len(sales_rows) |-> sales_rows[i].Commission], DealsOf(c))

\* a step that stores one more deal
AddsDeal == Len(sales_rows') = Len(sales_rows) + 1

\* the totals the Commission Table section shows for currency c, if any
\* (without deals of c it shows a notice and no figure)
TableFigures(rows, c) ==
    LET t == CommissionTable(rows, c)
    IN  IF t.shown = "table" THEN <<t.total_value, t.total_comm>> ELSE << >>

(* C1: the totals and the bonus shown for a currency are computed from the
   stored deals of that currency alone: the figures on the page are the sums
   over the selected currency's deals, and adding a deal under one currency
   (USD, say) changes no figure computed for another (RM). *)
C1_CurrencyPartition ==
    /\ [](/\ commission_table.shown = "table" =>
               /\ commission_table.total_value = ValueOf(currency)
               /\ commission_table.total_comm = CommissionOf(currency)
          /\ final_bonus.shown = "ok" =>
               /\ final_bonus.total_value = ValueOf(currency)
               /\ final_bonus.total_comm = CommissionOf(currency))
    /\ [][AddsDeal =>
            /\ NewDeal.Currency = currency
            /\ \A c \in CurrencySet \ {currency} :
                 /\ TableFigures(sales_rows', c) = TableFigures(sales_rows, c)
                 /\ FinalBonus(sales_rows', c, sales_bonus_tiers')
                      = FinalBonus(sales_rows, c, sales_bonus_tiers)]_vars

\* RM deals are stored, a deal has just been added under USD, and the page
\* shows the USD figures
C1_Witness ==
    /\ currency = "USD"
    /\ Len(sales_rows) >= 2
    /\ sales_rows[Len(sales_rows)].Currency = "USD"
    /\ DealsOf("RM") # {}
    /\ final_bonus.shown = "ok"
    /\ final_bonus.total_value = ValueOf("USD")
    /\ ValueOf("RM") > 0

\* percent cell value p as the rate p / 100
PctToRate(p) == (p * PPM) \div (PctDen * 100)

\* the tiers (rows of the stored table) whose threshold is the largest one
\* at or under total
MatchedTiers(table, total) ==
    {k \in 1..Len(table.rows) :
        /\ table.rows[k][1].value <= total
        /\ \A j \in 1..Len(table.rows) :
             table.rows[j][1].value <= total
                => table.rows[j][1].value <= table.rows[k][1].value}

(* C9: with at least one deal stored in the selected currency, total value
   is the sum of that currency's contract values, the bonus is total value
   times the matched tier's percent / 100, and the total incentive is the
   sum of that currency's stored commissions plus the bonus. *)
C9_TotalIncentive ==
    DealsOf(currency) # {} =>
        /\ final_bonus.shown = "ok"
        /\ final_bonus.total_value = ValueOf(currency)
        /\ \E k \in MatchedTiers(sales_bonus_tiers, ValueOf(currency)) :
              final_bonus.bonus
                 = ValueOf(currency) * PctToRate(sales_bonus_tiers.rows[k][2].value)
        /\ final_bonus.total_incentive = CommissionOf(currency) + final_bonus.bonus

\* two deals of the selected currency earn a bonus on their summed value
C9_Witness ==
    /\ Cardinality(DealsOf(currency)) >= 2
    /\ final_bonus.shown = "ok"
    /\ final_bonus.bonus > 0
    /\ final_bonus.total_incentive > CommissionOf(currency)

----------------------------------------------------------------------------
(* Properties of the bonus tier lookup (SpecBonus) *)

\* the page has run with at least one deal stored in the selected currency
BonusRun == final_bonus # Pending /\ DealsOf(currency) # {}

\* a header that reads `name` once the white space around it is dropped
Reads(header, names) ==
    \E n \in names :
        header \in {<<n>>, <<" ", n>>, <<n, " ">>, <<" ", n, " ">>}

ThresholdNames ==
    {"Min Total Contract Value", "Min Total Contract Value (inclusive)",
     "Min Total Contract Value (Inclusive)"}
BonusNames == {"Bonus %", "Bonus % on Total", "Bonus % On Total"}

\* the stored table has a threshold column first and a bonus column second
HasBothColumns(table) ==
    /\ Len(table.columns) = 2
    /\ Reads(table.columns[1], ThresholdNames)
    /\ Reads(table.columns[2], BonusNames)

AllNumbers(table) ==
    \A k \in 1..Len(table.rows), i \in 1..Len(table.columns) :
        table.rows[k][i].kind = "number"

\* the rows of the stored table are not in ascending order of threshold
Unsorted(table) ==
    \E k \in 1..(Len(table.rows) - 1) :
        table.rows[k][1].value > table.rows[k + 1][1].value

(* C2: whatever the order of the rows of the tier table, the lookup returns
   the bonus percent of a tier whose threshold is the largest one at or
   under the total value, and 0 when the total is under every threshold. *)
C2_TierLookup ==
    (BonusRun /\ HasBothColumns(sales_bonus_tiers) /\ AllNumbers(sales_bonus_tiers)) =>
        /\ final_bonus.shown = "ok"
        /\ LET matched == MatchedTiers(sales_bonus_tiers, final_bonus.total_value)
           IN  IF matched = {} THEN final_bonus.bonus_rate = 0
               ELSE \E k \in matched :
                      final_bonus.bonus_rate
                         = PctToRate(sales_bonus_tiers.rows[k][2].value)

\* rows stored with the larger threshold first, a total above both: the
\* rate of the first row (the larger threshold) is the one returned
C2_Witness ==
    /\ BonusRun /\ HasBothColumns(sales_bonus_tiers) /\ AllNumbers(sales_bonus_tiers)
    /\ Unsorted(sales_bonus_tiers)
    /\ Len(sales_bonus_tiers.rows) = 2
    /\ sales_bonus_tiers.rows[1][2] # sales_bonus_tiers.rows[2][2]
    /\ final_bonus.total_value >= sales_bonus_tiers.rows[1][1].value
    /\ final_bonus.bonus_rate = PctToRate(sales_bonus_tiers.rows[1][2].value)

\* a degenerate table: no rows, a threshold or bonus column missing or
\* renamed beyond recognition, or a cell that is not a number
Degenerate(table) ==
    \/ table.rows = << >>
    \/ ~HasBothColumns(table)
    \/ ~AllNumbers(table)

\* the table with every cell that is not a number read as 0
ZeroFilled(table) ==
    [table EXCEPT !.rows =
        [k \in 1..Len(table.rows) |->
            [i \in 1..Len(table.columns) |->
                IF table.rows[k][i].kind = "number" THEN table.rows[k][i] ELSE Num(0)]]]

NoBonusCellParses(table) ==
    \A k \in 1..Len(table.rows) : table.rows[k][2].kind # "number"

----------------------------------------------------------------------------
(* Properties of the Project Manager and Delivery Team pages *)

\* what the Part A rule pays for range t at n on-time projects
RangePay(n, t) ==
    IF n >= t.From THEN Max(Min(n, t.To) - t.From + 1, 0) * t.Rate ELSE 0

(* C4: the Part A payout is the sum, over exactly the ranges the on-time
   count n reaches (n >= from), of max(min(n, to) - from + 1, 0) * rate, and
   every such range contributes a breakdown row; with [1,3]@500, [4,6]@700,
   [7,9999]@900 and n = 5 the payout is 2900. *)
C4_PartAPayout ==
    pm_out.run =>
        LET n == pm_in.ontime_projects
            tiers == pm_in.tiers
            reached == {i \in 1..Len(tiers) : n >= tiers[i].From}
        IN  /\ pm_out.part_a_bonus
                 = SetSum([i \in 1..Len(tiers) |-> RangePay(n, tiers[i])], reached)
            /\ Len(pm_out.breakdown_rows) = Cardinality(reached)
            /\ (tiers = tiers_default /\ n = 5) => pm_out.part_a_bonus = 2900

\* the default ranges with 5 on-time projects: 3 counted at 500, 2 at 700
C4_Witness ==
    /\ pm_out.run
    /\ pm_in.tiers = tiers_default
    /\ pm_in.ontime_projects = 5
    /\ Len(pm_out.breakdown_rows) = 2
    /\ pm_out.breakdown_rows[1].tier_count = 3
    /\ pm_out.breakdown_rows[2].tier_count = 2
    /\ pm_out.part_a_bonus = 2900

(* C5: the bonus-month rule of both pages gives 1.00 at a KPI fraction of
   0.5 and 6.00 at 1.0, never decreases as the fraction grows over [0, 1],
   stays within [1.00, 6.00], and the two pages' copies give the same months
   for the same fraction. *)
C5_BonusMonthCurve ==
    curve_out.run =>
        LET a == curve_in.kpi_a
            b == curve_in.kpi_b
        IN  /\ a = KpiOne \div 2 => (curve_out.pm_a = 100 /\ curve_out.dt_a = 100)
            /\ a = KpiOne => (curve_out.pm_a = 600 /\ curve_out.dt_a = 600)
            /\ a <= b => (curve_out.pm_a <= curve_out.pm_b /\ curve_out.dt_a <= curve_out.dt_b)
            /\ b <= a => (curve_out.pm_b <= curve_out.pm_a /\ curve_out.dt_b <= curve_out.dt_a)
            /\ \A m \in {curve_out.pm_a, curve_out.pm_b, curve_out.dt_a, curve_out.dt_b} :
                  100 <= m /\ m <= 600
            /\ curve_out.pm_a = curve_out.dt_a
            /\ curve_out.pm_b = curve_out.dt_b

\* the rule applied to 0.75 and 1.0: 3.50 and 6.00 months on both pages
C5_Witness ==
    /\ curve_out.run
    /\ curve_in.kpi_a = 3 * (KpiOne \div 4)
    /\ curve_in.kpi_b = KpiOne
    /\ curve_out.pm_a = 350 /\ curve_out.dt_a = 350
    /\ curve_out.pm_b = 600 /\ curve_out.dt_b = 600

\* KPI_total and bonus months of a page that has run are in range
ScoreCardInRange(out) ==
    out.run =>
        /\ 0 <= out.KPI_total /\ out.KPI_total <= KpiOne
        /\ 100 <= out.bonus_months /\ out.bonus_months <= 600

(* C10: for all valid Project Manager and Delivery Team inputs the factor
   weights sum to 1.0, KPI_total is within [0, 100] and the bonus months
   are within [1.00, 6.00]. *)
C10_ScoreCard ==
    /\ SumSeq(PM_Weights) = 100
    /\ SumSeq(DT_Weights) = 100
    /\ ScoreCardInRange(pm_out)
    /\ ScoreCardInRange(dt_out)

\* a Delivery Team run with every factor at 100: KPI_total 100, 6.00 months
C10_Witness ==
    /\ dt_out.run
    /\ \A i \in 1..Len(dt_out.scores) : dt_out.scores[i] = Point(100)
    /\ dt_out.KPI_total = KpiOne
    /\ dt_out.bonus_months = 600

----------------------------------------------------------------------------
(* Properties of the delete and clear buttons *)

\* a script run started by "Delete ticked rows" or "Clear ALL (currency)"
RemovesInCurrency ==
    clicked'.widget \in {"btn_delete_ticked", "btn_clear_currency"}

(* C11: "Delete ticked rows" and "Clear ALL (currency)", pressed while
   currency c is selected, leave the stored deals of every other currency
   as they were: the same deals, with the same fields, in the same order. *)
C11_OtherCurrenciesKept ==
    [][RemovesInCurrency =>
          /\ currency' = currency
          /\ \A c \in CurrencySet \ {currency} :
                CurrencyView(sales_rows', c) = CurrencyView(sales_rows, c)]_vars

\* a row was ticked and deleted under USD; two different RM deals are still
\* stored, and nothing of USD is left
C11_Witness ==
    /\ clicked.widget = "btn_delete_ticked"
    /\ clicked.ticked_nos # {}
    /\ currency = "USD"
    /\ Len(CurrencyView(sales_rows, "RM")) = 2
    /\ sales_rows[1] # sales_rows[2]
    /\ DealsOf("USD") = {}

----------------------------------------------------------------------------
(* Properties of the stored deals *)

\* the Build to Own rule as a rate in millionths
BuildRateRule(v, p) ==
    LET band == IF v < BuildLo THEN Frac(12, 1000)
                ELSE IF v <= BuildHi
                     THEN Frac(15, 1000)
                          + (Frac(15, 1000) * (v - BuildLo)) \div (BuildHi - BuildLo)
                     ELSE Frac(3, 100)
    IN  band + (IF p THEN Frac(2, 1000) ELSE 0)

\* the rates the rule of deal d's category allows for the fields d stores
\* (the prepaid flag and the DC type are not stored with the deal)
RuleRates(d) ==
    CASE d.Category = "IRU" -> {PairsRateRule(Frac(3, 100), d.Pairs[1])}
      [] d.Category = "Fiber Lease" -> {PairsRateRule(Frac(2, 100), d.Pairs[1])}
      [] d.Category = "Build" -> {BuildRateRule(d.ContractValue, p) : p \in BOOLEAN}
      [] d.Category = "DC Grid" -> {Frac(3, 100), Frac(4, 100), Frac(5, 100)}

\* d stores rate as its Rate % (to three decimals) and value * rate as its
\* Commission
CarriesRate(d, rate) ==
    /\ d.Commission = d.ContractValue * rate
    /\ \E tie \in TieSides : d.RatePct = round(rate, PPM \div (100 * 1000), tie)

\* how many times deal d is in rows
Count(rows, d) == Cardinality({i \in 1..Len(rows) : rows[i] = d})

\* the deals stored after the step, but for one the step appended
Remaining == IF AddsDeal THEN SubSeq(sales_rows', 1, Len(sales_rows') - 1) ELSE sales_rows'

(* C12: after any sequence of adds, deletes and clears every stored
   deal carries a rate of its category's rule, as its Rate % and in
   Commission = Contract Value * rate; and no step changes a deal that stays
   stored: the deals left after a step were all stored, field for field,
   before it. *)
C12_DealsNeverMutated ==
    /\ [](\A i \in 1..Len(sales_rows) :
            \E rate \in RuleRates(sales_rows[i]) : CarriesRate(sales_rows[i], rate))
    /\ [][\A i \in 1..Len(Remaining) :
            Count(Remaining, Remaining[i]) <= Count(sales_rows, Remaining[i])]_vars

\* a row was ticked and deleted, and the IRU deal left in store still has
\* the rate and commission of its pairs
C12_Witness ==
    /\ clicked.widget = "btn_delete_ticked"
    /\ clicked.ticked_nos # {}
    /\ Len(sales_rows) = 1
    /\ sales_rows[1].Category = "IRU"
    /\ sales_rows[1].Pairs = <<MaxPairs>>
    /\ sales_rows[1].RatePct = 3000 + 100 * (MaxPairs - 1)
    /\ sales_rows[1].Commission = Amount(30000 + 1000 * (MaxPairs - 1))

(* C13: a Build to Own deal of value v is stored at rate 0.012 when
   v < 5,000,000, at 0.015 + 0.015 * (v - 5,000,000) / 10,000,000 when
   5,000,000 <= v <= 15,000,000 and at 0.03 above, plus 0.002 when the
   prepaid box is ticked; the rate never falls as v grows. *)
C13_BuildRate ==
    /\ [](\A v1 \in BuildValues, v2 \in BuildValues, p \in BOOLEAN :
            v1 <= v2 => BuildRate(v1, p) <= BuildRate(v2, p))
    /\ [][\A v \in BuildValues, p \in BOOLEAN, tie \in TieSides :
            AddBuild(v, p, tie) =>
              /\ NewDeal.Category = "Build"
              /\ NewDeal.ContractValue = v
              /\ NewDeal.Commission = v * BuildRateRule(v, p)
              /\ NewDeal.RatePct
                   = round(BuildRateRule(v, p), PPM \div (100 * 1000), tie)]_vars

\* a prepaid Build deal of 10,000,000 is stored at 2.25% + 0.2%
C13_Witness ==
    /\ clicked.widget = "Add Build"
    /\ Len(sales_rows) = 1
    /\ sales_rows[1].Category = "Build"
    /\ sales_rows[1].ContractValue = Money(10000000)
    /\ sales_rows[1].RatePct = 2450
    /\ sales_rows[1].Commission = Amount(245000)

\* seq without its elements at the positions in T, the rest in order
WithoutPositions(seq, T) ==
    LET kept == {i \in 1..Len(seq) : i \notin T}
        nth(j) == CHOOSE i \in kept : Cardinality({k \in kept : k <= i}) = j
    IN  [j \in 1..Cardinality(kept) |-> seq[nth(j)]]

(* C14: "Delete ticked rows" with a non-empty set T of ticked numbers
   removes exactly the deals at the positions T of the selected currency's
   view (that currency's stored deals in stored order) and keeps its other
   deals in their order; with nothing ticked it changes nothing; "Clear ALL
   (ALL currencies)" leaves no deal stored. *)
C14_DeleteByPosition ==
    [][/\ clicked'.widget = "btn_delete_ticked" =>
            IF clicked'.ticked_nos = {}
            THEN sales_rows' = sales_rows
            ELSE CurrencyView(sales_rows', currency)
                   = WithoutPositions(CurrencyView(sales_rows, currency),
                                      clicked'.ticked_nos)
       /\ clicked'.widget = "btn_clear_all_currencies" => sales_rows' = << >>]_vars

\* row 2 of three was ticked and deleted: two different deals of the
\* selected currency are left
C14_Witness ==
    /\ clicked.widget = "btn_delete_ticked"
    /\ clicked.ticked_nos = {2}
    /\ Len(sales_rows) = 2
    /\ Len(CurrencyView(sales_rows, currency)) = 2
    /\ sales_rows[1].Category = "IRU"
    /\ sales_rows[2].Category = "Build"

----------------------------------------------------------------------------
(* Properties of Part A over contiguous ranges *)

\* the ranges, taken by From, start at 1, are none of them empty, and each
\* starts right after the one before ends
Contiguous(tiers) ==
    /\ tiers # << >>
    /\ \E s \in SortedByFrom(tiers, 1..Len(tiers)) :
          /\ s[1].From = 1
          /\ \A k \in 1..Len(s) : s[k].From <= s[k].To
          /\ \A k \in 1..(Len(s) - 1) : s[k + 1].From = s[k].To + 1

\* the upper bound of the last range
LastTo(tiers) ==
    CHOOSE u \in {tiers[i].To : i \in 1..Len(tiers)} :
        \A i \in 1..Len(tiers) : tiers[i].To <= u

\* the Part A payouts the page can show for m on-time projects
PartAPayouts(m, tiers) ==
    {SumSeq(Column(PartALoop(m, s), "tier_pay")) : s \in SortedByFrom(tiers, 1..Len(tiers))}

(* C15: with ranges that are disjoint and contiguous from 1 and an on-time
   count n within the last range's upper bound, the projects counted over
   all ranges add up to n, and no smaller count pays more than n does
   (the rates being non-negative). *)
C15_EveryProjectCountedOnce ==
    (/\ pm_out.run
     /\ Contiguous(pm_in.tiers)
     /\ pm_in.ontime_projects <= LastTo(pm_in.tiers)
     /\ \A i \in 1..Len(pm_in.tiers) : pm_in.tiers[i].Rate >= 0) =>
        /\ SumSeq(Column(pm_out.breakdown_rows, "tier_count")) = pm_in.ontime_projects
        /\ \A m \in 0..pm_in.ontime_projects :
              \A pay \in PartAPayouts(m, pm_in.tiers) : pay <= pm_out.part_a_bonus

\* the default ranges with MaxOntime projects: all three ranges count, 3 + 3
\* and the rest, and the payout is above that of 6 projects
C15_Witness ==
    /\ pm_out.run
    /\ pm_in.tiers = tiers_default
    /\ pm_in.ontime_projects = MaxOntime
    /\ Len(pm_out.breakdown_rows) = 3
    /\ Column(pm_out.breakdown_rows, "tier_count") = <<3, 3, MaxOntime - 6>>
    /\ pm_out.part_a_bonus = 3 * 500 + 3 * 700 + (MaxOntime - 6) * 900
    /\ PartAPayouts(6, tiers_default) = {3 * 500 + 3 * 700}

====
